---- MODULE Spec2Model ----
(***************************************************************************)
(* A model of the console assistant (maindz.py, dop2.py): the contact      *)
(* Record and its validated fields, the AddressBook directory with search  *)
(* and paginated iteration, the upcoming-birthdays query, the note store   *)
(* and the two persistence pairs.                                          *)
(*                                                                         *)
(* maindz.py imports Field, Phone, Email, ... from dop2 and then defines   *)
(* classes of the same names itself (maindz.py:88-281), so the classes     *)
(* that Record and AddressBook use at run time are the ones of maindz.py.  *)
(* The note store with authors and tags exists only in dop2.py.            *)
(*                                                                         *)
(* A Python str is a sequence of one-character strings; None is the empty  *)
(* sequence and a present optional value v is <<v>>.                       *)
(***************************************************************************)
EXTENDS Integers, Sequences, FiniteSets, TLC

VARIABLES
    record,     \* the Record under edit: name, phones, email, birthday, address
    data,       \* AddressBook.data: the dict, as its insertion-ordered items
    notes,      \* NoteManager.notes (dop2.py)
    files,      \* the file system: file name -> pickled content
    it,         \* the AddressBookIterator last created: its fields, or <<>>
    batches,    \* the batches that iterator's __next__ has returned, in order
    stops,      \* how many times that iterator's __next__ raised StopIteration
    now,        \* what datetime.today() gives: the date and the second of the day
    call        \* the last call: its name, arguments, pre-state and outcome

vars == <<record, data, notes, files, it, batches, stops, now, call>>

None == <<>>

Some(v) == <<v>>

RECURSIVE Range(_)
Range(s) == IF s = <<>> THEN {} ELSE {Head(s)} \cup Range(Tail(s))

RECURSIVE Concat(_)
Concat(ss) == IF ss = <<>> THEN <<>> ELSE Head(ss) \o Concat(Tail(ss))

(***************************************************************************)
(* Characters and the str methods the code uses.                           *)
(***************************************************************************)
AsciiDigits == {"0", "1", "2", "3", "4", "5", "6", "7", "8", "9"}

\* Characters for which str.isdigit() is true without being decimal digits:
\* the superscript two stands for them.
OtherDigits == {"^2"}

LowerLetters == {"a", "b", "c", "d", "e", "l", "o", "x"}

UpperLetters == {"A", "B", "L"}

Letters == LowerLetters \cup UpperLetters

\* str.lower() on one character
LowerChar(c) ==
    CASE c = "A" -> "a"
      [] c = "B" -> "b"
      [] c = "L" -> "l"
      [] OTHER -> c

\* str.lower()
Lower(s) == [i \in DOMAIN s |-> LowerChar(s[i])]

\* str.isdigit(): non-empty, every character a digit character
IsDigit(s) == Len(s) > 0 /\ \A i \in DOMAIN s : s[i] \in AsciiDigits \cup OtherDigits

\* q in s, for two strs
Contains(s, q) ==
    \E i \in 0..(Len(s) - Len(q)) : SubSeq(s, i + 1, i + Len(q)) = q

DigitVal(c) ==
    CASE c = "0" -> 0 [] c = "1" -> 1 [] c = "2" -> 2 [] c = "3" -> 3
      [] c = "4" -> 4 [] c = "5" -> 5 [] c = "6" -> 6 [] c = "7" -> 7
      [] c = "8" -> 8 [] c = "9" -> 9

RECURSIVE Number(_)
Number(s) ==
    IF s = <<>> THEN 0
    ELSE 10 * Number(SubSeq(s, 1, Len(s) - 1)) + DigitVal(s[Len(s)])

AllAsciiDigits(s) == \A i \in DOMAIN s : s[i] \in AsciiDigits

(***************************************************************************)
(* Phone (maindz.py:110-121)                                               *)
(***************************************************************************)
is_valid_phone(value) == Len(value) = 10 /\ IsDigit(value)

(***************************************************************************)
(* Email: the class of maindz.py (the one Record uses) and the pattern of  *)
(* dop2.py.                                                                *)
(***************************************************************************)
is_valid_email(value) == Contains(value, <<"@">>)

\* fullmatch(EMAIL_REGULAR, value, flags=IGNORECASE) is not None, with
\* EMAIL_REGULAR = [a-z][a-z0-9_.]+[@][a-z.]+[.][a-z]{2,}
EmailRegularMatch(value) ==
    \E at \in DOMAIN value : \E dot \in DOMAIN value :
        /\ value[at] = "@"
        /\ value[dot] = "."
        /\ at >= 3
        /\ dot >= at + 2
        /\ Len(value) >= dot + 2
        /\ value[1] \in Letters
        /\ \A i \in 2..(at - 1) : value[i] \in Letters \cup AsciiDigits \cup {"_", "."}
        /\ \A i \in (at + 1)..(dot - 1) : value[i] \in Letters \cup {"."}
        /\ \A i \in (dot + 1)..Len(value) : value[i] \in Letters

(***************************************************************************)
(* Calendar dates, as datetime keeps them.                                 *)
(***************************************************************************)
IsLeap(y) == y % 4 = 0 /\ (y % 100 # 0 \/ y % 400 = 0)

DaysInMonth(y, m) ==
    CASE m \in {1, 3, 5, 7, 8, 10, 12} -> 31
      [] m \in {4, 6, 9, 11} -> 30
      [] m = 2 -> IF IsLeap(y) THEN 29 ELSE 28

\* datetime(y, m, d) raises ValueError unless this holds
IsDate(y, m, d) ==
    /\ y \in 1..9999
    /\ m \in 1..12
    /\ d \in 1..DaysInMonth(y, m)

RECURSIVE DaysBeforeMonth(_, _)
DaysBeforeMonth(y, m) ==
    IF m = 1 THEN 0 ELSE DaysBeforeMonth(y, m - 1) + DaysInMonth(y, m - 1)

\* date.toordinal(): the day number, 0001-01-01 being day 1
Ordinal(y, m, d) ==
    LET p == y - 1
    IN  p * 365 + (p \div 4) - (p \div 100) + (p \div 400) + DaysBeforeMonth(y, m) + d

\* datetime.strptime(s, "%Y-%m-%d"): <<date>> or, where it raises ValueError, <<>>.
\* %Y is four digits, %m one or two digits making 1..12, %d one or two digits
\* (or a space and a digit) making 1..31; the date must exist.
DayField(s) ==
    IF Len(s) = 2 /\ s[1] = " " /\ s[2] \in AsciiDigits \ {"0"} THEN DigitVal(s[2])
    ELSE IF Len(s) \in 1..2 /\ AllAsciiDigits(s) THEN Number(s)
    ELSE 0

MonthField(s) ==
    IF Len(s) \in 1..2 /\ AllAsciiDigits(s) THEN Number(s) ELSE 0

strptime(s) ==
    LET cuts == {j \in 7..(Len(s) - 1) :
                    /\ AllAsciiDigits(SubSeq(s, 1, 4))
                    /\ s[5] = "-"
                    /\ s[j] = "-"
                    /\ MonthField(SubSeq(s, 6, j - 1)) \in 1..12
                    /\ DayField(SubSeq(s, j + 1, Len(s))) \in 1..31}
    IN  IF cuts = {} THEN None
        ELSE LET j == CHOOSE c \in cuts : TRUE
                 y == Number(SubSeq(s, 1, 4))
                 m == MonthField(SubSeq(s, 6, j - 1))
                 d == DayField(SubSeq(s, j + 1, Len(s)))
             IN  IF IsDate(y, m, d)
                 THEN Some([type |-> "datetime", year |-> y, month |-> m, day |-> d])
                 ELSE None

\* datetime.date(): the calendar date of a datetime, an object that is no datetime
date(dt) == [type |-> "date", year |-> dt.year, month |-> dt.month, day |-> dt.day]

\* Birthday(value) (maindz.py:136-141): <<the field>>, or <<>> where __init__
\* raises ValueError because value is no datetime instance
Birthday(value) ==
    IF value.type = "datetime"
    THEN Some([type |-> "Birthday", value |-> value])
    ELSE None

(***************************************************************************)
(* Record (maindz.py:156-214).  Each method is an operator from the record *)
(* and the arguments to the record afterwards and what was raised ("" when *)
(* the call returned).                                                     *)
(***************************************************************************)
Record(name) ==
    [name |-> name, phones |-> <<>>, email |-> None, birthday |-> None,
     address |-> None]

Returned(r) == [rec |-> r, raised |-> ""]

Raised(r, e) == [rec |-> r, raised |-> e]

add_phone(r, phone) ==
    IF is_valid_phone(phone)
    THEN Returned([r EXCEPT !.phones = Append(@, phone)])
    ELSE Raised(r, "ValueError: Invalid phone number format")

add_email(r, email) ==
    IF is_valid_email(email)
    THEN Returned([r EXCEPT !.email = Some(email)])
    ELSE Raised(r, "ValueError: Invalid email format")

edit_phone(r, old_phone, new_phone) ==
    LET hits == {i \in DOMAIN r.phones : r.phones[i] = old_phone}
    IN  IF hits = {}
        THEN Raised(r, "ValueError: Phone not found in the record")
        ELSE LET first == CHOOSE i \in hits : \A j \in hits : i <= j
             IN  Returned([r EXCEPT !.phones[first] = new_phone])

edit_email(r, new_email) ==
    IF ~is_valid_email(new_email)
    THEN Raised(r, "ValueError: Invalid email format")
    ELSE IF r.email = None
    THEN Raised(r, "AttributeError: 'NoneType' object has no attribute 'value'")
    ELSE Returned([r EXCEPT !.email = Some(new_email)])

\* birthday is what the caller passes: a str, or (fun_add_contact,
\* fun_edit_contact) a date object, which strptime refuses with TypeError
set_birthday(r, birthday) ==
    IF birthday.type # "str"
    THEN Raised(r, "TypeError: strptime() argument 1 must be str")
    ELSE LET parsed == strptime(birthday.text)
         IN  IF parsed = None
             THEN Raised(r, "ValueError: Invalid birthday date format. Use YYYY-MM-DD.")
             ELSE LET field == Birthday(date(parsed[1]))
                  IN  IF field = None
                      THEN Raised(r, "ValueError: Invalid birthday date format. Use YYYY-MM-DD.")
                      ELSE Returned([r EXCEPT !.birthday = field])

set_address(r, address) == Returned([r EXCEPT !.address = Some(address)])

(***************************************************************************)
(* The values the calls are made with.                                     *)
(***************************************************************************)
Phone1 == <<"0", "1", "2", "3", "4", "5", "6", "7", "8", "9">>

Phone2 == <<"0", "1", "2", "3", "4", "0", "0", "0", "0", "0">>

Phone3 == <<"5", "5", "5", "0", "0", "0", "0", "0", "0", "0">>

PhoneShort == <<"1", "2", "3">>

PhoneLetter == <<"0", "1", "2", "3", "4", "5", "6", "7", "8", "x">>

PhoneInputs == {Phone1, Phone2, PhoneShort, PhoneLetter}

EmailGood == <<"a", "b", "@", "c", ".", "d", "e">>

EmailUpper == <<"A", "b", "1", "_", "@", "c", ".", "d", ".", "D", "E">>

EmailShortLocal == <<"a", "@", "c", ".", "d", "e">>

EmailDigitFirst == <<"1", "b", "@", "c", ".", "d", "e">>

EmailShortTld == <<"a", "b", "@", "c", ".", "d">>

EmailOnlyAt == <<"@">>

EmailNoAt == <<"b", "a", "d">>

EmailInputs ==
    {EmailGood, EmailUpper, EmailShortLocal, EmailDigitFirst, EmailShortTld,
     EmailOnlyAt, EmailNoAt}

Str(s) == [type |-> "str", text |-> s]

Date1 == <<"2", "0", "0", "0", "-", "0", "1", "-", "0", "2">>

DateLeap == <<"2", "0", "2", "4", "-", "0", "2", "-", "2", "9">>

DateShortFields == <<"1", "9", "9", "9", "-", "1", "-", "2">>

DateNoSuchDay == <<"2", "0", "2", "3", "-", "0", "2", "-", "2", "9">>

DateDayFirst == <<"0", "2", "-", "0", "1", "-", "2", "0", "0", "0">>

DateWord == <<"a", "b", "c">>

BirthdayInputs ==
    {Str(Date1), Str(DateLeap), Str(DateShortFields), Str(DateNoSuchDay),
     Str(DateDayFirst), Str(DateWord),
     [type |-> "date", year |-> 2000, month |-> 1, day |-> 2]}

AddressInputs == {<<"a">>, <<"b">>}

\* the number of phones a record is given in the model
MaxPhones == 2

(***************************************************************************)
(* The Record specification: one record, any sequence of its methods.      *)
(***************************************************************************)
NoCall == [op |-> "none"]

At(y, m, d, s) == [year |-> y, month |-> m, day |-> d, second |-> s]

InitIdle ==
    /\ data = <<>>
    /\ notes = <<>>
    /\ files = <<>>
    /\ it = None
    /\ batches = <<>>
    /\ stops = 0
    /\ now = At(2024, 12, 30, 0)
    /\ call = NoCall

InitRecord ==
    /\ record = Record(<<"a", "l">>)
    /\ InitIdle

Called(op, args, out) ==
    [op |-> op, args |-> args, before |-> record, raised |-> out.raised]

AddPhone ==
    \E phone \in PhoneInputs :
        /\ Len(record.phones) < MaxPhones
        /\ record' = add_phone(record, phone).rec
        /\ call' = Called("add_phone", [phone |-> phone], add_phone(record, phone))
        /\ UNCHANGED <<data, notes, files, it, batches, stops, now>>

EditPhone ==
    \E old_phone \in PhoneInputs, new_phone \in PhoneInputs :
        /\ record' = edit_phone(record, old_phone, new_phone).rec
        /\ call' = Called("edit_phone",
                          [old_phone |-> old_phone, new_phone |-> new_phone],
                          edit_phone(record, old_phone, new_phone))
        /\ UNCHANGED <<data, notes, files, it, batches, stops, now>>

AddEmail ==
    \E email \in EmailInputs :
        /\ record' = add_email(record, email).rec
        /\ call' = Called("add_email", [email |-> email], add_email(record, email))
        /\ UNCHANGED <<data, notes, files, it, batches, stops, now>>

EditEmail ==
    \E new_email \in EmailInputs :
        /\ record' = edit_email(record, new_email).rec
        /\ call' = Called("edit_email", [new_email |-> new_email],
                          edit_email(record, new_email))
        /\ UNCHANGED <<data, notes, files, it, batches, stops, now>>

SetBirthday ==
    \E birthday \in BirthdayInputs :
        /\ record' = set_birthday(record, birthday).rec
        /\ call' = Called("set_birthday", [birthday |-> birthday],
                          set_birthday(record, birthday))
        /\ UNCHANGED <<data, notes, files, it, batches, stops, now>>

SetAddress ==
    \E address \in AddressInputs :
        /\ record' = set_address(record, address).rec
        /\ call' = Called("set_address", [address |-> address],
                          set_address(record, address))
        /\ UNCHANGED <<data, notes, files, it, batches, stops, now>>

NextRecord ==
    \/ AddPhone
    \/ EditPhone
    \/ AddEmail
    \/ EditEmail
    \/ SetBirthday
    \/ SetAddress

SpecRecord == InitRecord /\ [][NextRecord]_vars

(***************************************************************************)
(* The upcoming-birthdays query (maindz.py:436-482).                       *)
(*                                                                         *)
(* today is datetime.today(): a calendar date and the time of day, kept    *)
(* here as the second of the day.  A record's birthday is read through     *)
(* its .month and .day, so the records given to the query hold a date.     *)
(***************************************************************************)
SecondsPerDay == 86400

\* datetime(y, m, d) < today, datetime(y, m, d) being midnight of that day
BeforeNow(y, m, d, today) ==
    \/ Ordinal(y, m, d) < Ordinal(today.year, today.month, today.day)
    \/ /\ Ordinal(y, m, d) = Ordinal(today.year, today.month, today.day)
       /\ 0 < today.second

\* (datetime(y, m, d) - today).days: timedelta keeps whole days, rounding down
DeltaDays(y, m, d, today) ==
    ((Ordinal(y, m, d) - Ordinal(today.year, today.month, today.day)) * SecondsPerDay
        - today.second) \div SecondsPerDay

\* One turn of the loop of get_upcoming_birthdays (maindz.py:466-479): "skip",
\* "append", or the exception the turn raises.  days_count is <<n>> for an int
\* n, and <<>> for a value that is still the str the user typed.
Turn(rec, days_count, today) ==
    IF rec.birthday = None THEN "skip"
    ELSE LET b == rec.birthday[1]
         IN  IF ~IsDate(today.year, b.month, b.day)
             THEN "ValueError"
             ELSE LET y == IF BeforeNow(today.year, b.month, b.day, today)
                           THEN today.year + 1 ELSE today.year
                  IN  IF ~IsDate(y, b.month, b.day) THEN "ValueError"
                      ELSE IF ~(0 <= DeltaDays(y, b.month, b.day, today)) THEN "skip"
                      ELSE IF days_count = None THEN "TypeError"
                      ELSE IF DeltaDays(y, b.month, b.day, today) <= days_count[1]
                      THEN "append"
                      ELSE "skip"

RECURSIVE Loop(_, _, _, _)
Loop(items, days_count, today, upcoming_birthdays) ==
    IF items = <<>> THEN [result |-> upcoming_birthdays, raised |-> ""]
    ELSE LET turn == Turn(Head(items).value, days_count, today)
         IN  IF turn \in {"ValueError", "TypeError"}
             THEN [result |-> <<>>, raised |-> turn]
             ELSE Loop(Tail(items), days_count, today,
                       IF turn = "append"
                       THEN Append(upcoming_birthdays, Head(items).value)
                       ELSE upcoming_birthdays)

get_upcoming_birthdays(address_book, days_count, today) ==
    Loop(address_book, days_count, today, <<>>)

\* str.strip() of blanks
RECURSIVE Strip(_)
Strip(s) ==
    IF s # <<>> /\ Head(s) = " " THEN Strip(Tail(s))
    ELSE IF s # <<>> /\ s[Len(s)] = " " THEN Strip(SubSeq(s, 1, Len(s) - 1))
    ELSE s

\* int(typed) for a str: <<n>>, or <<>> where it raises ValueError (blanks
\* around the number are dropped; underscores between digits are not modelled)
int(typed) ==
    LET s == Strip(typed)
        signed == Len(s) > 0 /\ s[1] \in {"-", "+"}
        digits == IF signed THEN Tail(s) ELSE s
    IN  IF Len(digits) > 0 /\ AllAsciiDigits(digits)
        THEN Some(IF signed /\ s[1] = "-" THEN 0 - Number(digits) ELSE Number(digits))
        ELSE None

\* fun_upcoming_birthdays (maindz.py:436-453): what it prints, whether it
\* called get_upcoming_birthdays, and what that call gave
fun_upcoming_birthdays(address_book, typed, today) ==
    LET parsed == int(typed)
        invalid == parsed = None \/ parsed[1] < 0
        got == get_upcoming_birthdays(address_book, parsed, today)
    IN  [printed |->
            (IF invalid
             THEN <<"Invalid input. Please enter a non-negative integer.">>
             ELSE <<>>)
            \o (IF got.raised # "" THEN <<>>
                ELSE IF got.result # <<>> THEN <<"Upcoming birthdays within the next">>
                ELSE <<"No upcoming birthdays within the next">>),
         computed |-> TRUE,
         result |-> got.result,
         raised |-> got.raised]

Day(m, d) == [type |-> "date", year |-> 1990, month |-> m, day |-> d]

BirthdayValues == {None, Some(Day(1, 2)), Some(Day(12, 30)), Some(Day(2, 29))}

Names == {<<"A", "l">>, <<"b", "o", "b">>}

\* the number of records of the directory given to the query
MaxBook == 2

\* the largest days_count asked for
MaxDays == 5

Entry(name, rec) == [key |-> name, value |-> rec]

\* The directories of at most MaxBook records, a name being the key of one
BirthdayBooks ==
    {<<>>}
    \cup {book \in UNION {[1..n -> [key : Names, birthday : BirthdayValues]] : n \in 1..MaxBook} :
            \A i, j \in DOMAIN book : book[i].key = book[j].key => i = j}

WithBirthday(book) ==
    [i \in DOMAIN book |->
        Entry(book[i].key, [Record(book[i].key) EXCEPT !.birthday = book[i].birthday])]

Todays ==
    {At(2024, 12, 30, s) : s \in {0, 1, 43200}}
    \cup {At(2024, 1, 2, s) : s \in {0, 43200, 86399}}
    \cup {At(2025, 2, 28, 0), At(2024, 2, 29, 43200)}

TypedDays == {<<"-", "1">>, <<"0">>, <<" ", "2">>, <<"5">>, <<"a">>, <<>>}

InitBirthday ==
    /\ record = Record(<<"A", "l">>)
    /\ \E book \in BirthdayBooks : data = WithBirthday(book)
    /\ notes = <<>>
    /\ files = <<>>
    /\ it = None
    /\ batches = <<>>
    /\ stops = 0
    /\ now \in Todays
    /\ call = NoCall

GetUpcomingBirthdays ==
    \E days_count \in (0 - 1)..MaxDays :
        LET got == get_upcoming_birthdays(data, Some(days_count), now)
        IN  /\ call' = [op |-> "get_upcoming_birthdays", days_count |-> days_count,
                        today |-> now, computed |-> TRUE, printed |-> <<>>,
                        result |-> got.result, raised |-> got.raised]
            /\ UNCHANGED <<record, data, notes, files, it, batches, stops, now>>

FunUpcomingBirthdays ==
    \E typed \in TypedDays :
        LET got == fun_upcoming_birthdays(data, typed, now)
        IN  /\ call' = [op |-> "fun_upcoming_birthdays", typed |-> typed,
                        today |-> now, computed |-> got.computed,
                        printed |-> got.printed, result |-> got.result,
                        raised |-> got.raised]
            /\ UNCHANGED <<record, data, notes, files, it, batches, stops, now>>

NextBirthday ==
    \/ GetUpcomingBirthdays
    \/ FunUpcomingBirthdays

SpecBirthday == InitBirthday /\ [][NextBirthday]_vars

(***************************************************************************)
(* Paginated iteration (maindz.py:235-236, 263-281; dop2.py:193-215 is the *)
(* same class).                                                            *)
(***************************************************************************)
\* list(address_book.data.values())
values(address_book) == [i \in DOMAIN address_book |-> address_book[i].value]

\* a_list[start:end] for 0 <= start <= end
Slice(a_list, start, end) ==
    SubSeq(a_list, start + 1, IF end < Len(a_list) THEN end ELSE Len(a_list))

AddressBookIterator(items_per_page) ==
    [items_per_page |-> items_per_page, current_page |-> 0]

\* AddressBookIterator.__next__ with a mistaken end index
next_short(self, address_book) ==
    LET start == self.current_page * self.items_per_page
        end == start + self.items_per_page - 1
        records == Slice(values(address_book), start, end)
    IN  IF records = <<>>
        THEN [self |-> self, records |-> <<>>, raised |-> "StopIteration"]
        ELSE [self |-> [self EXCEPT !.current_page = @ + 1], records |-> records,
              raised |-> ""]

\* AddressBookIterator.__next__: the iterator afterwards, and the batch returned
\* or StopIteration raised
next(self, address_book) ==
    LET start == self.current_page * self.items_per_page
        end == start + self.items_per_page
        records == Slice(values(address_book), start, end)
    IN  IF records = <<>>
        THEN [self |-> self, records |-> <<>>, raised |-> "StopIteration"]
        ELSE [self |-> [self EXCEPT !.current_page = @ + 1], records |-> records,
              raised |-> ""]

DigitChar(n) ==
    CASE n = 0 -> "0" [] n = 1 -> "1" [] n = 2 -> "2" [] n = 3 -> "3"
      [] n = 4 -> "4" [] n = 5 -> "5" [] n = 6 -> "6" [] n = 7 -> "7"
      [] n = 8 -> "8" [] n = 9 -> "9"

\* the name of the i-th contact added
NameOf(i) == <<"c", DigitChar(i \div 10), DigitChar(i % 10)>>

\* the directory after n contacts were added to an empty one
BookOf(n) == [i \in 1..n |-> Entry(NameOf(i), Record(NameOf(i)))]

\* the number of records of the directory iterated over
MaxRecords == 12

\* the largest page size an iterator is created with
MaxPageSize == 5

\* the number of StopIterations one iterator is driven to
MaxStops == 2

\* the page size of AddressBook.__iter__
ItemsPerPage == 5

InitPaginate ==
    /\ record = Record(<<"A", "l">>)
    /\ \E n \in 0..MaxRecords : data = BookOf(n)
    /\ notes = <<>>
    /\ files = <<>>
    /\ it = None
    /\ batches = <<>>
    /\ stops = 0
    /\ now = At(2024, 12, 30, 0)
    /\ call = NoCall

\* iter(address_book)
Iter ==
    /\ it' = Some(AddressBookIterator(ItemsPerPage))
    /\ batches' = <<>>
    /\ stops' = 0
    /\ call' = [op |-> "__iter__"]
    /\ UNCHANGED <<record, data, notes, files, now>>

\* AddressBookIterator(address_book, items_per_page)
NewIterator ==
    \E items_per_page \in 1..MaxPageSize :
        /\ it' = Some(AddressBookIterator(items_per_page))
        /\ batches' = <<>>
        /\ stops' = 0
        /\ call' = [op |-> "AddressBookIterator"]
        /\ UNCHANGED <<record, data, notes, files, now>>

\* next(iterator)
NextBatch ==
    /\ it # None
    /\ stops < MaxStops
    /\ LET got == next(it[1], data)
       IN  /\ it' = Some(got.self)
           /\ batches' = IF got.raised = "" THEN Append(batches, got.records)
                         ELSE batches
           /\ stops' = IF got.raised = "" THEN stops ELSE stops + 1
           /\ call' = [op |-> "__next__", raised |-> got.raised]
    /\ UNCHANGED <<record, data, notes, files, now>>

NextPaginate ==
    \/ Iter
    \/ NewIterator
    \/ NextBatch

SpecPaginate == InitPaginate /\ [][NextPaginate]_vars

(***************************************************************************)
(* The directory and its persistence (maindz.py:217-244, 329-343).         *)
(*                                                                         *)
(* A pickle is kept as the object it holds: the dict of save_to_file, or   *)
(* the whole AddressBook (its data and its notes_manager) of save_book.    *)
(* Beside it the file keeps, for the round-trip claim only, the directory  *)
(* that was being saved.                                                   *)
(***************************************************************************)
Keys(d) == {d[i].key : i \in DOMAIN d}

\* d[key] = value: a new key goes last, an old key keeps its place
setitem(d, key, value) ==
    IF key \in Keys(d)
    THEN [i \in DOMAIN d |-> IF d[i].key = key THEN Entry(key, value) ELSE d[i]]
    ELSE Append(d, Entry(key, value))

\* d[key], for a key of d
getitem(d, key) == d[CHOOSE i \in DOMAIN d : d[i].key = key].value

\* del d[key]
delitem(d, key) ==
    LET Other(e) == e.key # key
    IN  SelectSeq(d, Other)

\* AddressBook.delete (maindz.py:231-233)
delete(d, name) == IF name \in Keys(d) THEN delitem(d, name) ELSE d

FILENAME == "address_book.pkl"

BackupFile == "backup.pkl"

FileNames == {FILENAME, BackupFile}

Book == [data |-> data, notes |-> notes]

\* dump(self.data, file)
DumpData(book) == [type |-> "dict", data |-> book.data]

\* dump(address_book, file)
DumpBook(book) == [type |-> "AddressBook", data |-> book.data, notes |-> book.notes]

\* AddressBook.save_to_file: the file afterwards
save_to_file(book) == Some([pickle |-> DumpData(book), of |-> book])

\* AddressBook.load_from_file: self.data = load(file); notes_manager is not touched
load_from_file(book, file) == [book EXCEPT !.data = file[1].pickle.data]

\* save_book: the file afterwards
save_book(book) == Some([pickle |-> DumpBook(book), of |-> book])

\* load_book: the object unpickled, or AddressBook() when there is no file
load_book(file) ==
    IF file = None THEN [data |-> <<>>, notes |-> <<>>]
    ELSE [data |-> file[1].pickle.data, notes |-> file[1].pickle.notes]

NoteTexts == {<<"a">>, <<"b">>}

\* the number of notes of the directory's note manager
MaxNotes == 1

InitPersist ==
    /\ record = Record(<<"A", "l">>)
    /\ data = <<>>
    /\ notes = <<>>
    /\ files = [f \in FileNames |-> None]
    /\ it = None
    /\ batches = <<>>
    /\ stops = 0
    /\ now = At(2024, 12, 30, 0)
    /\ call = NoCall

\* AddressBook()
NewAddressBook ==
    /\ data' = <<>>
    /\ notes' = <<>>
    /\ call' = [op |-> "AddressBook"]
    /\ UNCHANGED <<record, files, it, batches, stops, now>>

\* address_book[name] = Record(name)
SetItem ==
    \E name \in Names :
        /\ name \in Keys(data) \/ Len(data) < MaxBook
        /\ data' = setitem(data, name, Record(name))
        /\ call' = [op |-> "__setitem__"]
        /\ UNCHANGED <<record, notes, files, it, batches, stops, now>>

\* address_book.data[name].add_phone(Phone1), for a record with no phone yet
RecordAddPhone ==
    \E name \in Keys(data) :
        /\ getitem(data, name).phones = <<>>
        /\ data' = setitem(data, name, add_phone(getitem(data, name), Phone1).rec)
        /\ call' = [op |-> "add_phone"]
        /\ UNCHANGED <<record, notes, files, it, batches, stops, now>>

\* address_book.delete(name)
Delete ==
    \E name \in Names :
        /\ data' = delete(data, name)
        /\ call' = [op |-> "delete"]
        /\ UNCHANGED <<record, notes, files, it, batches, stops, now>>

\* address_book.add_note(text) (maindz.py:92-94, 222-223)
AddNote ==
    \E text \in NoteTexts :
        /\ Len(notes) < MaxNotes
        /\ notes' = Append(notes, [text |-> text])
        /\ call' = [op |-> "add_note"]
        /\ UNCHANGED <<record, data, files, it, batches, stops, now>>

SaveToFile ==
    /\ files' = [files EXCEPT ![BackupFile] = save_to_file(Book)]
    /\ call' = [op |-> "save_to_file", filename |-> BackupFile, raised |-> ""]
    /\ UNCHANGED <<record, data, notes, it, batches, stops, now>>

LoadFromFile ==
    /\ IF files[BackupFile] = None
       THEN /\ call' = [op |-> "load_from_file", filename |-> BackupFile,
                        raised |-> "FileNotFoundError"]
            /\ UNCHANGED <<data, notes>>
       ELSE /\ data' = load_from_file(Book, files[BackupFile]).data
            /\ notes' = load_from_file(Book, files[BackupFile]).notes
            /\ call' = [op |-> "load_from_file", filename |-> BackupFile,
                        raised |-> "", before |-> Book]
    /\ UNCHANGED <<record, files, it, batches, stops, now>>

SaveBook ==
    /\ files' = [files EXCEPT ![FILENAME] = save_book(Book)]
    /\ call' = [op |-> "save_book", filename |-> FILENAME, raised |-> ""]
    /\ UNCHANGED <<record, data, notes, it, batches, stops, now>>

LoadBook ==
    /\ data' = load_book(files[FILENAME]).data
    /\ notes' = load_book(files[FILENAME]).notes
    /\ call' = [op |-> "load_book", filename |-> FILENAME, raised |-> ""]
    /\ UNCHANGED <<record, files, it, batches, stops, now>>

NextPersist ==
    \/ NewAddressBook
    \/ SetItem
    \/ RecordAddPhone
    \/ Delete
    \/ AddNote
    \/ SaveToFile
    \/ LoadFromFile
    \/ SaveBook
    \/ LoadBook

SpecPersist == InitPersist /\ [][NextPersist]_vars

(***************************************************************************)
(* AddressBook.search (maindz.py:246-260).                                 *)
(***************************************************************************)
\* int(query[0]) raises nothing: the else branch, over the phones, runs
FirstCharIsInt(query) == query # <<>> /\ int(<<query[1]>>) # None

\* the record, appended once for each of its phones that contains the query
RECURSIVE PhoneAppends(_, _, _)
PhoneAppends(rec, phones, query) ==
    IF phones = <<>> THEN <<>>
    ELSE (IF Contains(Lower(Head(phones)), Lower(query)) THEN <<rec>> ELSE <<>>)
         \o PhoneAppends(rec, Tail(phones), query)

RECURSIVE SearchPhones(_, _)
SearchPhones(items, query) ==
    IF items = <<>> THEN <<>>
    ELSE PhoneAppends(Head(items).value, Head(items).value.phones, query)
         \o SearchPhones(Tail(items), query)

RECURSIVE SearchNames(_, _)
SearchNames(items, query) ==
    IF items = <<>> THEN <<>>
    ELSE (IF Contains(Lower(Head(items).key), Lower(query))
          THEN <<Head(items).value>> ELSE <<>>)
         \o SearchNames(Tail(items), query)

search(d, query) ==
    IF FirstCharIsInt(query) THEN SearchPhones(d, query) ELSE SearchNames(d, query)

ContactNames == Names \cup {<<"a", "1">>}

PhoneLists == {<<>>, <<Phone1>>, <<Phone1, Phone2>>, <<Phone3>>}

Queries ==
    {<<"0", "1", "2">>, <<"5">>, <<"1">>, <<"a">>, <<"A", "L">>, <<"b", "o">>, <<>>}

SearchBooks ==
    {<<>>}
    \cup {book \in UNION {[1..n -> [key : ContactNames, phones : PhoneLists]] : n \in 1..MaxBook} :
            \A i, j \in DOMAIN book : book[i].key = book[j].key => i = j}

WithPhones(book) ==
    [i \in DOMAIN book |->
        Entry(book[i].key, [Record(book[i].key) EXCEPT !.phones = book[i].phones])]

InitSearch ==
    /\ record = Record(<<"A", "l">>)
    /\ \E book \in SearchBooks : data = WithPhones(book)
    /\ notes = <<>>
    /\ files = <<>>
    /\ it = None
    /\ batches = <<>>
    /\ stops = 0
    /\ now = At(2024, 12, 30, 0)
    /\ call = NoCall

Search ==
    \E query \in Queries :
        /\ call' = [op |-> "search", query |-> query, result |-> search(data, query)]
        /\ UNCHANGED <<record, data, notes, files, it, batches, stops, now>>

NextSearch == Search

SpecSearch == InitSearch /\ [][NextSearch]_vars

(***************************************************************************)
(* The note store (dop2.py:115-183): adding, editing and deleting notes.   *)
(* What a method prints stands for the line it prints; every method        *)
(* returns None.                                                           *)
(***************************************************************************)
Notes(text, author, tags) == [text |-> text, author |-> author, tags |-> tags]

add_note_with_tags(self, author, text, tags) ==
    [notes |-> Append(self, Notes(text, author, tags)), printed |-> <<>>, ret |-> None]

edit_note(self, index, new_text, new_tags) ==
    IF 1 <= index /\ index <= Len(self)
    THEN [notes |-> [self EXCEPT ![index].text = new_text, ![index].tags = new_tags],
          printed |-> <<[line |-> "Note edited successfully.", index |-> index]>>,
          ret |-> None]
    ELSE [notes |-> self, printed |-> <<[line |-> "Invalid note index."]>>,
          ret |-> None]

\* a_list.pop(i) for 0 <= i < len(a_list): the list afterwards
Pop(a_list, i) == SubSeq(a_list, 1, i) \o SubSeq(a_list, i + 2, Len(a_list))

\* delete_note popping at index instead of index - 1 (for the last index the
\* pop raises IndexError and nothing is removed or printed)
delete_note_zero_based(self, index) ==
    IF 1 <= index /\ index <= Len(self)
    THEN IF index < Len(self)
         THEN [notes |-> Pop(self, index),
               printed |-> <<[line |-> "Note deleted:", index |-> index,
                              deleted_note |-> self[index + 1]]>>,
               ret |-> None]
         ELSE [notes |-> self, printed |-> <<>>, ret |-> None]
    ELSE [notes |-> self, printed |-> <<[line |-> "Invalid note index."]>>,
          ret |-> None]

delete_note(self, index) ==
    IF 1 <= index /\ index <= Len(self)
    THEN [notes |-> Pop(self, index - 1),
          printed |-> <<[line |-> "Note deleted:", index |-> index,
                         deleted_note |-> self[index]]>>,
          ret |-> None]
    ELSE [notes |-> self, printed |-> <<[line |-> "Invalid note index."]>>,
          ret |-> None]

Authors == {<<"a", "l">>, <<"b", "o">>}

\* the number of notes of the note store
MaxStore == 3

InitNotes ==
    /\ record = Record(<<"A", "l">>)
    /\ data = <<>>
    /\ notes = <<>>
    /\ files = <<>>
    /\ it = None
    /\ batches = <<>>
    /\ stops = 0
    /\ now = At(2024, 12, 30, 0)
    /\ call = NoCall

AddNoteWithTags ==
    \E author \in Authors, text \in NoteTexts :
        /\ Len(notes) < MaxStore
        /\ notes' = add_note_with_tags(notes, author, text, <<>>).notes
        /\ call' = [op |-> "add_note_with_tags"]
        /\ UNCHANGED <<record, data, files, it, batches, stops, now>>

EditNote ==
    \E index \in 0..(MaxStore + 1) :
        LET out == edit_note(notes, index, <<"c">>, <<<<"x">>>>)
        IN  /\ notes' = out.notes
            /\ call' = [op |-> "edit_note", index |-> index, before |-> notes,
                        printed |-> out.printed, ret |-> out.ret, raised |-> ""]
            /\ UNCHANGED <<record, data, files, it, batches, stops, now>>

DeleteNote ==
    \E index \in (0 - 1)..(MaxStore + 1) :
        LET out == delete_note(notes, index)
        IN  /\ notes' = out.notes
            /\ call' = [op |-> "delete_note", index |-> index, before |-> notes,
                        printed |-> out.printed, ret |-> out.ret, raised |-> ""]
            /\ UNCHANGED <<record, data, files, it, batches, stops, now>>

NextNotes ==
    \/ AddNoteWithTags
    \/ EditNote
    \/ DeleteNote

SpecNotes == InitNotes /\ [][NextNotes]_vars

(***************************************************************************)
(* The commands add-contact, edit-contact and delete-contact               *)
(* (maindz.py:345-425).  What the user types at the prompts of one command *)
(* is an argument of the command: the answers to a repeated prompt are a   *)
(* sequence, which the closing "c" ends.  main catches nothing, so an      *)
(* exception that leaves a command ends the program.                       *)
(***************************************************************************)
\* the exceptions an "except ValueError" clause catches
IsValueError(raised) ==
    raised \in {"ValueError: Invalid phone number format",
                "ValueError: Invalid email format",
                "ValueError: Phone not found in the record",
                "ValueError: Invalid birthday date format. Use YYYY-MM-DD."}

\* the loop over the phones typed (maindz.py:351-357)
RECURSIVE PhoneLoop(_, _)
PhoneLoop(r, typed) ==
    IF typed = <<>> THEN r
    ELSE PhoneLoop(add_phone(r, Head(typed)).rec, Tail(typed))

\* the loop over the birthdays typed (maindz.py:359-369): the record
\* afterwards and the exception that leaves the loop, if one does
RECURSIVE BirthdayLoop(_, _)
BirthdayLoop(r, typed) ==
    IF typed = <<>> THEN Returned(r)
    ELSE LET parsed == strptime(Head(typed))
         IN  IF parsed = None THEN BirthdayLoop(r, Tail(typed))
             ELSE LET out == set_birthday(r, date(parsed[1]))
                  IN  IF out.raised = "" THEN out
                      ELSE IF IsValueError(out.raised)
                      THEN BirthdayLoop(r, Tail(typed))
                      ELSE out

\* the loop over the emails typed (maindz.py:372-378)
RECURSIVE EmailLoop(_, _)
EmailLoop(r, typed) ==
    IF typed = <<>> THEN r
    ELSE LET out == add_email(r, Head(typed))
         IN  IF out.raised = "" THEN out.rec ELSE EmailLoop(r, Tail(typed))

\* fun_add_contact with the key spelled in lower case
fun_add_contact_lower(address_book, name, phones, birthdays, emails, address) ==
    LET with_phones == PhoneLoop(Record(name), phones)
        born == BirthdayLoop(with_phones, birthdays)
        with_email == EmailLoop(born.rec, emails)
        whole == IF address = None THEN with_email
                 ELSE set_address(with_email, address[1]).rec
    IN  IF born.raised # ""
        THEN [data |-> setitem(address_book, Lower(name), born.rec),
              raised |-> born.raised]
        ELSE [data |-> setitem(address_book, Lower(name), whole), raised |-> ""]

\* fun_add_contact: the directory afterwards and the exception that leaves the
\* command, if one does.  The record is in the directory from the start, so it
\* stays there, as far as it was filled, when the command is left.
fun_add_contact(address_book, name, phones, birthdays, emails, address) ==
    LET with_phones == PhoneLoop(Record(name), phones)
        born == BirthdayLoop(with_phones, birthdays)
        with_email == EmailLoop(born.rec, emails)
        whole == IF address = None THEN with_email
                 ELSE set_address(with_email, address[1]).rec
    IN  IF born.raised # ""
        THEN [data |-> setitem(address_book, name, born.rec), raised |-> born.raised]
        ELSE [data |-> setitem(address_book, name, whole), raised |-> ""]

Edit(what, value) == [what |-> what, value |-> value]

\* one turn of the loop of fun_edit_contact (maindz.py:394-410)
EditTurn(r, edit) ==
    CASE edit.what = "phone" ->
            IF r.phones = <<>>
            THEN Raised(r, "IndexError: list index out of range")
            ELSE edit_phone(r, r.phones[1], edit.value)
      [] edit.what = "birthday" ->
            IF strptime(edit.value) = None
            THEN Raised(r, "ValueError: Invalid birthday date format. Use YYYY-MM-DD.")
            ELSE set_birthday(r, date(strptime(edit.value)[1]))
      [] edit.what = "address" -> set_address(r, edit.value)
      [] edit.what = "email" -> edit_email(r, edit.value)
      [] OTHER -> Returned(r)

RECURSIVE EditLoop(_, _)
EditLoop(r, edits) ==
    IF edits = <<>> THEN Returned(r)
    ELSE LET out == EditTurn(r, Head(edits))
         IN  IF out.raised = "" \/ IsValueError(out.raised)
             THEN EditLoop(out.rec, Tail(edits))
             ELSE out

fun_edit_contact(address_book, contact_name, edits) ==
    IF contact_name \in Keys(address_book)
    THEN LET out == EditLoop(getitem(address_book, contact_name), edits)
         IN  [data |-> setitem(address_book, contact_name, out.rec),
              raised |-> out.raised]
    ELSE [data |-> address_book, raised |-> ""]

fun_delete_contact(address_book, contact_name, question) ==
    IF contact_name \in Keys(address_book) /\ question = "yes"
    THEN [data |-> delitem(address_book, contact_name), raised |-> ""]
    ELSE [data |-> address_book, raised |-> ""]

PhonesTyped == {<<>>, <<PhoneShort, Phone1>>}

BirthdaysTyped == {<<>>, <<DateWord, Date1>>}

EmailsTyped == {<<>>, <<EmailNoAt, EmailOnlyAt>>}

AddressTyped == {None, Some(<<"a">>)}

EditScripts ==
    {<<>>,
     <<Edit("phone", Phone2)>>,
     <<Edit("phone", PhoneShort)>>,
     <<Edit("email", EmailNoAt), Edit("email", EmailUpper)>>,
     <<Edit("address", <<"a">>), Edit("name", <<"b", "o", "b">>)>>,
     <<Edit("birthday", DateWord), Edit("address", <<"a">>)>>,
     <<Edit("birthday", Date1)>>}

\* the key and the Name of every record of the directory, in its order
NamesOf(address_book) ==
    [i \in DOMAIN address_book |->
        [key |-> address_book[i].key, name |-> address_book[i].value.name]]

\* an exception left the last command
Ended == call.op # "none" /\ call.raised # ""

InitCommands ==
    /\ record = Record(<<"A", "l">>)
    /\ InitIdle

AddContact ==
    \E name \in Names, phones \in PhonesTyped, birthdays \in BirthdaysTyped,
       emails \in EmailsTyped, address \in AddressTyped :
        LET out == fun_add_contact(data, name, phones, birthdays, emails, address)
        IN  /\ ~Ended
            /\ data' = out.data
            /\ call' = [op |-> "add-contact", name |-> name,
                        before |-> NamesOf(data), raised |-> out.raised]
            /\ UNCHANGED <<record, notes, files, it, batches, stops, now>>

EditContact ==
    \E contact_name \in Names, edits \in EditScripts :
        LET out == fun_edit_contact(data, contact_name, edits)
        IN  /\ ~Ended
            /\ data' = out.data
            /\ call' = [op |-> "edit-contact", name |-> contact_name,
                        before |-> NamesOf(data), raised |-> out.raised]
            /\ UNCHANGED <<record, notes, files, it, batches, stops, now>>

DeleteContact ==
    \E contact_name \in Names, question \in {"yes", "no"} :
        LET out == fun_delete_contact(data, contact_name, question)
        IN  /\ ~Ended
            /\ data' = out.data
            /\ call' = [op |-> "delete-contact", name |-> contact_name,
                        before |-> NamesOf(data), raised |-> out.raised]
            /\ UNCHANGED <<record, notes, files, it, batches, stops, now>>

NextCommands ==
    \/ AddContact
    \/ EditContact
    \/ DeleteContact

SpecCommands == InitCommands /\ [][NextCommands]_vars

(***************************************************************************)
(* Paginated iteration over a directory that records are deleted from      *)
(* between the calls of next (maindz.py:231-233, 263-281).  The iterator   *)
(* holds the directory, not a copy of its records: every next lists the    *)
(* records the directory has then.                                         *)
(***************************************************************************)
\* the number of records of the directory that records are deleted from
MaxListed == 4

InitPaginateDelete ==
    /\ record = Record(<<"A", "l">>)
    /\ \E n \in 0..MaxListed : data = BookOf(n)
    /\ notes = <<>>
    /\ files = <<>>
    /\ it = None
    /\ batches = <<>>
    /\ stops = 0
    /\ now = At(2024, 12, 30, 0)
    /\ call = NoCall

\* address_book.delete(name), for a name of the directory
DeleteListed ==
    \E name \in Keys(data) :
        /\ data' = delete(data, name)
        /\ call' = [op |-> "delete", name |-> name]
        /\ UNCHANGED <<record, notes, files, it, batches, stops, now>>

NextPaginateDelete ==
    \/ Iter
    \/ NewIterator
    \/ NextBatch
    \/ DeleteListed

SpecPaginateDelete == InitPaginateDelete /\ [][NextPaginateDelete]_vars

(***************************************************************************)
(* Claims about Record, checked under SpecRecord.                          *)
(***************************************************************************)
IsTenDecimalDigits(s) == Len(s) = 10 /\ \A i \in DOMAIN s : s[i] \in AsciiDigits

\* C1: after any sequence of add_phone and edit_phone calls every phone of the
\* record is a string of exactly 10 decimal digits, and edit_phone with an
\* invalid new value fails and leaves the phone list unchanged.
C1_PhonesAlwaysValid ==
    /\ \A i \in DOMAIN record.phones : IsTenDecimalDigits(record.phones[i])
    /\ (call.op = "edit_phone" /\ ~IsTenDecimalDigits(call.args.new_phone))
          => /\ call.raised # ""
             /\ record.phones = call.before.phones

\* a "YYYY-MM-DD" string naming a real calendar date
IsIsoDate(s) ==
    /\ Len(s) = 10
    /\ s[5] = "-" /\ s[8] = "-"
    /\ AllAsciiDigits(SubSeq(s, 1, 4) \o SubSeq(s, 6, 7) \o SubSeq(s, 9, 10))
    /\ IsDate(Number(SubSeq(s, 1, 4)), Number(SubSeq(s, 6, 7)), Number(SubSeq(s, 9, 10)))

\* C5: set_birthday with a well-formed "YYYY-MM-DD" string of a real calendar
\* date succeeds and the record's birthday then holds that date.
C5_SetBirthdayStores ==
    (/\ call.op = "set_birthday"
     /\ call.args.birthday.type = "str"
     /\ IsIsoDate(call.args.birthday.text))
        => /\ call.raised = ""
           /\ record.birthday # None
           /\ LET s == call.args.birthday.text
                  held == record.birthday[1].value
              IN  /\ held.year = Number(SubSeq(s, 1, 4))
                  /\ held.month = Number(SubSeq(s, 6, 7))
                  /\ held.day = Number(SubSeq(s, 9, 10))

\* C6: after any sequence of add_email and edit_email calls the record's email,
\* when set, matches the email pattern, and a value that does not match is
\* rejected with the stored email unchanged.
C6_EmailAlwaysMatches ==
    /\ record.email # None => EmailRegularMatch(record.email[1])
    /\ (call.op \in {"add_email", "edit_email"}
        /\ ~EmailRegularMatch(IF call.op = "add_email" THEN call.args.email
                              ELSE call.args.new_email))
          => /\ call.raised # ""
             /\ record.email = call.before.email

(***************************************************************************)
(* Claims about the upcoming-birthdays query, checked under SpecBirthday.  *)
(***************************************************************************)
\* the records that came back, by key
ResultKeys == {call.result[i].name : i \in DOMAIN call.result}

\* the next occurrence of (m, d) on or after the calendar date of today, in
\* calendar days from that date (the birthdays of the model exist in leap years)
CalendarDaysTo(m, d, today) ==
    LET t == Ordinal(today.year, today.month, today.day)
        y == CHOOSE yy \in today.year..(today.year + 4) :
                /\ IsDate(yy, m, d)
                /\ Ordinal(yy, m, d) >= t
                /\ \A zz \in today.year..(yy - 1) :
                      ~(IsDate(zz, m, d) /\ Ordinal(zz, m, d) >= t)
    IN  Ordinal(y, m, d) - t

\* C2: a record whose birthday's (month, day) is today's is in the result for
\* every days_count >= 0, at any time of day.
C2_BirthdayTodayIncluded ==
    (call.op = "get_upcoming_birthdays" /\ call.days_count >= 0)
        => \A i \in DOMAIN data :
              (/\ data[i].value.birthday # None
               /\ data[i].value.birthday[1].month = call.today.month
               /\ data[i].value.birthday[1].day = call.today.day)
                  => /\ call.raised = ""
                     /\ data[i].key \in ResultKeys

\* C3: a record with a birthday is in the result if and only if the calendar
\* days from today's date to the birthday's next occurrence number between 0
\* and days_count; the record of (1, 2) on 2024-12-30 is in for 5 and out for 2.
\* (Stated for the birthdays that are not today; C2 is the case of today.)
C3_WindowInCalendarDays ==
    (call.op = "get_upcoming_birthdays" /\ call.days_count >= 0)
        => \A i \in DOMAIN data :
              LET b == data[i].value.birthday
              IN  (b # None /\ CalendarDaysTo(b[1].month, b[1].day, call.today) > 0)
                      => /\ call.raised = ""
                         /\ data[i].key \in ResultKeys
                                <=> CalendarDaysTo(b[1].month, b[1].day, call.today)
                                        <= call.days_count

\* C4: a negative days_count makes the upcoming-birthdays query fail: the
\* failure is reported and no result list is computed or returned.
C4_NegativeDaysFails ==
    (call.op = "fun_upcoming_birthdays" /\ int(call.typed) # None
     /\ int(call.typed)[1] < 0)
        => /\ "Invalid input. Please enter a non-negative integer."
                  \in Range(call.printed)
           /\ ~call.computed
           /\ Len(call.printed) = 1

(***************************************************************************)
(* Claims about paginated iteration, checked under SpecPaginate.           *)
(***************************************************************************)
\* C7: over a directory of n records that is not mutated, one iterator with
\* page size k >= 1 returns ceil(n/k) batches, each of k records but a last one
\* of n mod k when that is not zero, which put together are the directory's
\* records in its order, each once; only then, and from then on always, next
\* signals exhaustion; a new iterator starts again at the first batch.
C7_BatchesCoverDirectoryOnce ==
    it # None =>
        LET n == Len(data)
            k == it[1].items_per_page
            whole == n \div k
            pages == IF n % k = 0 THEN whole ELSE whole + 1
        IN  /\ Len(batches) <= pages
            /\ \A i \in DOMAIN batches :
                  Len(batches[i]) = IF i <= whole THEN k ELSE n % k
            /\ \A i \in DOMAIN batches : \A j \in DOMAIN batches[i] :
                  batches[i][j] = data[(i - 1) * k + j].value
            /\ stops > 0 =>
                  /\ Len(batches) = pages
                  /\ Concat(batches) = values(data)
            /\ it[1].current_page = Len(batches)

C7_Witness ==
    /\ it # None
    /\ Len(data) = 12
    /\ it[1].items_per_page = 5
    /\ Len(batches) = 3
    /\ Len(batches[1]) = 5 /\ Len(batches[2]) = 5 /\ Len(batches[3]) = 2
    /\ stops = 2

(***************************************************************************)
(* Claims about persistence, checked under SpecPersist.                    *)
(***************************************************************************)
\* the same keys, the same record under every key, the same notes in order
SameDirectory(a, b) ==
    /\ Keys(a.data) = Keys(b.data)
    /\ \A k \in Keys(a.data) : getitem(a.data, k) = getitem(b.data, k)
    /\ a.notes = b.notes

\* C8: a directory that is saved and then loaded is equal to the directory that
\* was saved, with save_to_file/load_from_file (loading into a new
\* AddressBook()) and with save_book/load_book.
C8_RoundTrip ==
    /\ (call.op = "load_from_file" /\ call.raised = ""
        /\ call.before = [data |-> <<>>, notes |-> <<>>])
          => SameDirectory(Book, files[BackupFile][1].of)
    /\ (call.op = "load_book" /\ files[FILENAME] # None)
          => SameDirectory(Book, files[FILENAME][1].of)

(***************************************************************************)
(* Claims about search, checked under SpecSearch.                          *)
(***************************************************************************)
\* the predicate of the mode the query selects
Matches(entry, query) ==
    IF FirstCharIsInt(query)
    THEN \E i \in DOMAIN entry.value.phones : Contains(entry.value.phones[i], query)
    ELSE Contains(Lower(entry.key), Lower(query))

\* C9: search returns the records that satisfy the predicate of the query's
\* mode, in directory order, each once.
C9_SearchIsFilter ==
    call.op = "search" =>
        LET Hit(entry) == Matches(entry, call.query)
        IN  call.result = values(SelectSeq(data, Hit))

(***************************************************************************)
(* Claims about the note store, checked under SpecNotes.                   *)
(***************************************************************************)
InRange(index, size) == 1 <= index /\ index <= size

C11_KeyIsName ==
    /\ \A i \in DOMAIN data : data[i].key = data[i].value.name
    /\ call.op = "edit-contact" => NamesOf(data) = call.before
    /\ call.op = "delete-contact" =>
          \A i \in DOMAIN data : \E j \in DOMAIN call.before :
              /\ call.before[j].key = data[i].key
              /\ call.before[j].name = data[i].value.name
    /\ call.op = "add-contact" =>
          /\ \A j \in DOMAIN call.before : \E i \in DOMAIN data :
                /\ data[i].key = call.before[j].key
                /\ data[i].value.name = call.before[j].name
          /\ \E i \in DOMAIN data :
                data[i].key = call.name /\ data[i].value.name = call.name

\* an edit has changed a record of a directory of two, after a delete and an
\* add of the same name had been possible
C11_Witness ==
    /\ call.op = "edit-contact"
    /\ call.raised = ""
    /\ Len(data) = 2
    /\ getitem(data, call.name).phones # <<>>
    /\ getitem(data, call.name).phones[1] = Phone2
    /\ getitem(data, call.name).email = Some(EmailUpper)

(***************************************************************************)
(* Claims about paginated iteration with deletions, checked under          *)
(* SpecPaginateDelete.  No record is added there, so the records of the    *)
(* directory at any time have been in it since the iterator was created.   *)
(***************************************************************************)
\* the number of places of the batches returned that hold the record
TimesReturned(rec) ==
    Cardinality({i \in DOMAIN Concat(batches) : Concat(batches)[i] = rec})

\* C12: when records are deleted between the next calls of one iterator, every
\* record that is in the directory from the iterator's creation until next
\* signals exhaustion has been returned in exactly one batch.
C12_SurvivorsReturnedOnce ==
    (it # None /\ stops > 0) =>
        \A i \in DOMAIN data : TimesReturned(data[i].value) = 1
====
